---------------------------- MODULE Spec2Model ----------------------------
(***************************************************************************)
(* A model of the Householder QR kernels of <T>LAPACK:                     *)
(*   - geqr2, flat-argument wrapper   (slate_api geqr2.hpp)                *)
(*   - geqr2, view-based kernel       (include/lapack/geqr2.hpp)           *)
(*   - larfg, reflector generation    (include/lapack/larfg.hpp)           *)
(*                                                                         *)
(* Spec      : the geqr2 call machine.  Matrix, tau and scratch cells hold *)
(*             provenance tokens <<writer, column>> instead of numbers, so *)
(*             that every write, its author and its order are observable.  *)
(* SpecLarfg : larfg over exact rational / complex-rational arithmetic.    *)
(***************************************************************************)
EXTENDS Integers, Sequences, FiniteSets, TLC

VARIABLES
    pc,          \* position of the geqr2 call
    api,         \* "flat" | "view" | "none": which entry point the caller used
    m, n, lda,   \* arguments of the call
    sameType,    \* is_same_v< TA, Ttau > of the flat call
    A,           \* the m-by-n matrix, [Rows \X Cols -> token]
    tau,         \* the caller's tau storage, [0..size-1 -> token]
    tauSize,     \* size of the view _tau handed to the kernel
    buf,         \* the private scratch buffer (new work_t[n-1]), <<>> if none
    work,        \* the scratch view: [base, off, size]
    i,           \* loop index of the kernel
    alpha,       \* the local "alpha" of the kernel (geqr2.hpp line 86)
    info,        \* returned status, NoInfo while the call is running
    heap,        \* [acquired, released, tauReleased]: new[] / delete[] bookkeeping
    log,         \* sequence of kernel events <<name, column>>
    lpc,         \* position of the larfg call
    lcomplex,    \* is_complex<alpha_t>::value of the larfg call
    lin,         \* larfg inputs  [alpha, x]
    lalpha,      \* larfg in/out  alpha
    lx,          \* larfg in/out  x
    ltau,        \* larfg out     tau
    lbeta,       \* larfg local   beta
    lknt,        \* larfg local   knt
    cpc,         \* position of the copy call
    cmem,        \* the storage the views x and y of copy refer to
    cx, cy,      \* the views x and y of copy: [base, size, stride]
    ci,          \* loop index of copy
    cerr,        \* copy signalled blas::Error
    spc,         \* position of the syrk call
    sarg,        \* arguments of the syrk call
    sC,          \* the array C of syrk
    sreads,      \* cells of the array A that syrk has read
    scall,       \* arguments handed to the view-based syrk, NoCall if not called
    serr,        \* syrk signalled blas::Error
    apc,         \* position of the laset call
    aarg,        \* arguments of the laset call: [uplo, m, n]
    aA,          \* the matrix A of laset
    rpc,         \* position of the larnv / set_complex call
    rarg,        \* arguments of the larnv / set_complex call
    rx,          \* the vector x of larnv, the target x of set_complex
    rseed,       \* iseed of larnv
    rgen,        \* number of values drawn from the generator
    ri,          \* loop index of larnv
    rerr         \* blas::error was reported

gvars == <<pc, api, m, n, lda, sameType, A, tau, tauSize, buf, work, i, alpha,
           info, heap, log>>
lvars == <<lpc, lcomplex, lin, lalpha, lx, ltau, lbeta, lknt>>
cvars == <<cpc, cmem, cx, cy, ci, cerr>>
svars == <<spc, sarg, sC, sreads, scall, serr>>
avars == <<apc, aarg, aA>>
rvars == <<rpc, rarg, rx, rseed, rgen, ri, rerr>>
kvars == <<cvars, svars, avars, rvars>>
vars  == <<gvars, lvars, kvars>>

-----------------------------------------------------------------------------
(* Bounds *)

\* largest matrix dimension a call is made with
MaxDim == 3

-----------------------------------------------------------------------------
(* Small helpers *)

Min(a, b) == IF a < b THEN a ELSE b
Max(a, b) == IF a < b THEN b ELSE a

NoInfo == "none"

\* cell tokens
In       == <<"in", -1>>       \* the caller's value on entry
Uninit   == <<"uninit", -1>>   \* a freshly acquired, never written cell
One      == <<"one", -1>>      \* the constant TA(1)
TauOf(c)   == <<"tau", c>>     \* tau stored by larfg for column c
BetaOf(c)  == <<"beta", c>>    \* beta stored by larfg for column c
VOf(c)     == <<"v", c>>       \* reflector entry stored by larfg for column c
WOf(c)     == <<"w", c>>       \* scratch value written by larf in iteration c
COf(c)     == <<"C", c>>       \* trailing-matrix value written by larf in iteration c

Rows(mm) == 0 .. (mm - 1)
Cols(nn) == 0 .. (nn - 1)

NoWork == [base |-> "none", off |-> 0, size |-> 0]
NoHeap == [acquired |-> 0, released |-> 0, tauReleased |-> 0]


FreshA(mm, nn) == [p \in Rows(mm) \X Cols(nn) |-> In]
FreshVec(len, tok) == [j \in 0 .. (len - 1) |-> tok]

\* the larfg call is idle while the geqr2 machine runs
LarfgIdle ==
    /\ lpc = "idle"
    /\ lcomplex = FALSE
    /\ lin = <<>>
    /\ lalpha = <<>>
    /\ lx = <<>>
    /\ ltau = <<>>
    /\ lbeta = <<>>
    /\ lknt = 0

\* the geqr2 call is idle while the larfg machine runs
Geqr2Idle ==
    /\ pc = "idle"
    /\ api = "none"
    /\ m = 0
    /\ n = 0
    /\ lda = 0
    /\ sameType = TRUE
    /\ A = FreshA(0, 0)
    /\ tau = FreshVec(0, In)
    /\ tauSize = 0
    /\ buf = FreshVec(0, Uninit)
    /\ work = NoWork
    /\ i = 0
    /\ alpha = In
    /\ info = NoInfo
    /\ heap = NoHeap
    /\ log = <<>>

\* a vector view: element j is the storage cell base + j * stride
NoView == [base |-> 0, size |-> 0, stride |-> 1]

\* the copy call is idle while another machine runs
CopyIdle ==
    /\ cpc = "idle"
    /\ cmem = <<>>
    /\ cx = NoView
    /\ cy = NoView
    /\ ci = 0
    /\ cerr = FALSE

NoCall == [uplo |-> "none"]

\* the syrk call is idle while another machine runs
SyrkIdle ==
    /\ spc = "idle"
    /\ sarg = <<>>
    /\ sC = <<>>
    /\ sreads = {}
    /\ scall = NoCall
    /\ serr = FALSE

\* the laset call is idle while another machine runs
LasetIdle ==
    /\ apc = "idle"
    /\ aarg = <<>>
    /\ aA = <<>>

\* the larnv / set_complex call is idle while another machine runs
LarnvIdle ==
    /\ rpc = "idle"
    /\ rarg = <<>>
    /\ rx = <<>>
    /\ rseed = 0
    /\ rgen = 0
    /\ ri = 0
    /\ rerr = FALSE

\* the BLAS and auxiliary kernels are idle
KernelsIdle == CopyIdle /\ SyrkIdle /\ LasetIdle /\ LarnvIdle

Init == Geqr2Idle /\ LarfgIdle /\ KernelsIdle

-----------------------------------------------------------------------------
(* The caller: a fresh call of one of the two entry points *)

\* blas::idx_t arguments the caller may pass to the flat entry point
FlatDims == -1 .. MaxDim

\* length of the tau array the caller owns: min(m,n) as documented
TauLen(mm, nn) == Max(0, Min(mm, nn))

\* geqr2( m, n, A, lda, tau ) is called
FlatEnter ==
    /\ pc = "idle"
    /\ \E mm \in FlatDims, nn \in FlatDims, ld \in FlatDims, same \in BOOLEAN :
        /\ m' = mm
        /\ n' = nn
        /\ lda' = ld
        /\ sameType' = same
        /\ A' = FreshA(mm, nn)
        /\ tau' = FreshVec(TauLen(mm, nn), In)
    /\ api' = "flat"
    /\ pc' = "flat"
    /\ tauSize' = 0
    /\ buf' = FreshVec(0, Uninit)
    /\ work' = NoWork
    /\ i' = 0
    /\ alpha' = In
    /\ info' = NoInfo
    /\ heap' = NoHeap
    /\ log' = <<>>
    /\ UNCHANGED <<lvars, kvars>>

\* geqr2( A, tau, work ) is called directly on views; the scratch view is
\* either a vector of the caller or tau[1:] (geqr2.hpp lines 49-52)
ViewEnter ==
    /\ pc = "idle"
    /\ \E mm \in 0 .. MaxDim, nn \in 0 .. MaxDim,
          st \in 0 .. MaxDim, sw \in 0 .. MaxDim, alias \in BOOLEAN :
        /\ alias => sw = Max(0, st - 1)
        /\ m' = mm
        /\ n' = nn
        /\ lda' = Max(1, mm)
        /\ A' = FreshA(mm, nn)
        /\ tau' = FreshVec(st, In)
        /\ tauSize' = st
        /\ buf' = IF alias THEN FreshVec(0, Uninit) ELSE FreshVec(sw, Uninit)
        /\ work' = IF alias THEN [base |-> "tau", off |-> 1, size |-> sw]
                            ELSE [base |-> "buf", off |-> 0, size |-> sw]
    /\ sameType' = TRUE
    /\ api' = "view"
    /\ pc' = "view"
    /\ i' = 0
    /\ alpha' = In
    /\ info' = NoInfo
    /\ heap' = NoHeap
    /\ log' = <<>>
    /\ UNCHANGED <<lvars, kvars>>

-----------------------------------------------------------------------------
(* geqr2( m, n, A, lda, tau ): the flat-argument wrapper *)

\* variant: the two dimension checks in the opposite order
MutFlatArgCheck(mm, nn, ld) ==
    IF nn < 0 THEN -2
    ELSE IF mm < 0 THEN -1
    ELSE IF ld < mm THEN -4
    ELSE 0

\* the argument checks, in order; 0 when all pass
FlatArgCheck(mm, nn, ld) ==
    IF mm < 0 THEN -1
    ELSE IF nn < 0 THEN -2
    ELSE IF ld < mm THEN -4
    ELSE 0

\* variant: tau is reused whenever the types agree
MutFlatUsesPrivate(same, mm, nn) == ~same

\* the condition under which work is a private buffer
FlatUsesPrivate(same, mm, nn) == (~same) \/ (nn - 1 >= mm)

\* variant: work is deleted only when the types differ
MutFlatDeletes(same, mm, nn) == ~same

\* the condition under which work is deleted
FlatDeletes(same, mm, nn) == (~same) \/ (nn - 1 >= mm)

\* offset of work inside tau when tau is reused
WorkOffsetInTau == 1

\* lapack_error_if( ... ) returns the code
FlatError ==
    /\ pc = "flat"
    /\ FlatArgCheck(m, n, lda) # 0
    /\ info' = FlatArgCheck(m, n, lda)
    /\ pc' = "done"
    /\ UNCHANGED <<api, m, n, lda, sameType, A, tau, tauSize, buf, work, i,
                   alpha, heap, log>>
    /\ UNCHANGED <<lvars, kvars>>

\* if (n <= 0) return 0
FlatQuick ==
    /\ pc = "flat"
    /\ FlatArgCheck(m, n, lda) = 0
    /\ n <= 0
    /\ info' = 0
    /\ pc' = "done"
    /\ UNCHANGED <<api, m, n, lda, sameType, A, tau, tauSize, buf, work, i,
                   alpha, heap, log>>
    /\ UNCHANGED <<lvars, kvars>>

\* work is acquired or aliased, the views are built and the kernel is entered
FlatWork ==
    /\ pc = "flat"
    /\ FlatArgCheck(m, n, lda) = 0
    /\ n > 0
    /\ IF FlatUsesPrivate(sameType, m, n)
         THEN /\ buf' = FreshVec(IF n > 0 THEN n - 1 ELSE 0, Uninit)
              /\ heap' = [heap EXCEPT !.acquired = @ + 1]
              /\ work' = [base |-> "buf", off |-> 0, size |-> n - 1]
              /\ log' = Append(log, <<"new", n - 1>>)
         ELSE /\ buf' = buf
              /\ heap' = heap
              /\ work' = [base |-> "tau", off |-> WorkOffsetInTau, size |-> n - 1]
              /\ log' = log
    /\ tauSize' = Min(m, n)
    /\ pc' = "view"
    /\ UNCHANGED <<api, m, n, lda, sameType, A, tau, i, alpha, info>>
    /\ UNCHANGED <<lvars, kvars>>

\* delete[] work under the same condition, then return info
FlatExit ==
    /\ pc = "viewret"
    /\ api = "flat"
    /\ IF FlatDeletes(sameType, m, n)
         THEN IF work.base = "buf"
                THEN /\ heap' = [heap EXCEPT !.released = @ + 1]
                     /\ log' = Append(log, <<"delete", work.size>>)
                ELSE /\ heap' = [heap EXCEPT !.tauReleased = @ + 1]
                     /\ log' = Append(log, <<"delete", work.size>>)
         ELSE UNCHANGED <<heap, log>>
    /\ pc' = "done"
    /\ UNCHANGED <<api, m, n, lda, sameType, A, tau, tauSize, buf, work, i,
                   alpha, info>>
    /\ UNCHANGED <<lvars, kvars>>

-----------------------------------------------------------------------------
(* geqr2( A, tau, work ): the view-based kernel *)

\* variant: the loop runs over min(m,n) columns
MutK(mm, nn) == Min(mm, nn)

\* const idx_t k = std::min<idx_t>( m, n-1 )
K(mm, nn) == Min(mm, nn - 1)

\* the two argument checks of the kernel, in order; 0 when both pass
ViewArgCheck(mm, nn, sizeTau, sizeWork) ==
    IF sizeTau < Min(mm, nn) THEN -2
    ELSE IF sizeWork < nn - 1 THEN -3
    ELSE 0

\* rows of x := A[c+1:m, c], the vector handed to larfg for column c
XRows(mm, c) == (c + 1) .. (mm - 1)

\* variant: the reflector is applied from one row above its pivot
MutCRows(mm, c) == (c - 1) .. (mm - 1)

\* rows and columns of C := A[c:m, c+1:n], the matrix handed to larf
CRows(mm, c) == c .. (mm - 1)
\* variant: the reflector is applied to its own column as well
MutCCols(nn, c) == c .. (nn - 1)

CCols(nn, c) == (c + 1) .. (nn - 1)

\* variant: the scratch window starts one element early
MutWRange(nn, c) == (c - 1) .. (nn - 2)

\* variant: the scratch window is work[c:n]
MutWRangeLong(nn, c) == c .. (nn - 1)

\* indices, in work, of w := work[c:n-1], the scratch window handed to larf
WRange(nn, c) == c .. (nn - 2)

MutLoopRanges(mm, nn, c) ==
    [x |-> <<c + 1, mm>>, v |-> <<c, mm>>, Crows |-> <<c, mm>>,
     Ccols |-> <<c + 1, nn>>, w |-> <<c, nn>>]

\* the pairs {first, last + 1} of the slices of iteration c: x, v, C and w
LoopRanges(mm, nn, c) ==
    [x |-> <<c + 1, mm>>, v |-> <<c, mm>>, Crows |-> <<c, mm>>,
     Ccols |-> <<c + 1, nn>>, w |-> <<c, nn - 1>>]

\* the pair of the slice after the loop: x := A[n:m, n-1]
TailRanges(mm, nn) == [x |-> <<nn, mm>>]

\* larfg( A(c,c), x, tau[c] ) on the matrix: on the non-trivial path alpha
\* is overwritten by beta and x by v; on the trivial path nothing is written
larfgOnA(AA, mm, c, nontrivial) ==
    IF nontrivial
      THEN [p \in DOMAIN AA |->
              IF p = <<c, c>> THEN BetaOf(c)
              ELSE IF p[2] = c /\ p[1] \in XRows(mm, c) THEN VOf(c)
              ELSE AA[p]]
      ELSE AA

\* larfg( A(c,c), x, tau[c] ) on tau: tau[c] is always assigned
larfgOnTau(tt, c) == [tt EXCEPT ![c] = TauOf(c)]

\* larf( left_side, v, tau[c], C, w ) on the matrix: C := (I - tau v v^H) C
larfOnA(AA, mm, nn, c) ==
    [p \in DOMAIN AA |->
        IF p[1] \in CRows(mm, c) /\ p[2] \in CCols(nn, c) THEN COf(c) ELSE AA[p]]

\* larf( ... ) on a storage vector vec that work addresses from offset off:
\* every element of the window w is written (w := C^H v)
larfOnWork(vec, off, nn, c) ==
    [j \in DOMAIN vec |-> IF (j - off) \in WRange(nn, c) THEN WOf(c) ELSE vec[j]]

\* lapack_error_if( size(tau) < min(m,n), -2 ), lapack_error_if( size(work) < n-1, -3 )
ViewError ==
    /\ pc = "view"
    /\ ViewArgCheck(m, n, tauSize, work.size) # 0
    /\ info' = ViewArgCheck(m, n, tauSize, work.size)
    /\ pc' = "viewret"
    /\ UNCHANGED <<api, m, n, lda, sameType, A, tau, tauSize, buf, work, i,
                   alpha, heap, log>>
    /\ UNCHANGED <<lvars, kvars>>

\* if (n <= 0) return 0
ViewQuick ==
    /\ pc = "view"
    /\ ViewArgCheck(m, n, tauSize, work.size) = 0
    /\ n <= 0
    /\ info' = 0
    /\ pc' = "viewret"
    /\ UNCHANGED <<api, m, n, lda, sameType, A, tau, tauSize, buf, work, i,
                   alpha, heap, log>>
    /\ UNCHANGED <<lvars, kvars>>

\* the loop is entered with i = 0
ViewStart ==
    /\ pc = "view"
    /\ ViewArgCheck(m, n, tauSize, work.size) = 0
    /\ n > 0
    /\ i' = 0
    /\ pc' = "loop"
    /\ UNCHANGED <<api, m, n, lda, sameType, A, tau, tauSize, buf, work,
                   alpha, info, heap, log>>
    /\ UNCHANGED <<lvars, kvars>>

\* i < k: x := A[i+1:m, i]; larfg( A(i,i), x, tau[i] )
LoopLarfg ==
    /\ pc = "loop"
    /\ i < K(m, n)
    /\ \E nontrivial \in BOOLEAN : A' = larfgOnA(A, m, i, nontrivial)
    /\ tau' = larfgOnTau(tau, i)
    /\ log' = Append(log, <<"larfg", i>>)
    /\ pc' = "pivot"
    /\ UNCHANGED <<api, m, n, lda, sameType, tauSize, buf, work, i, alpha,
                   info, heap>>
    /\ UNCHANGED <<lvars, kvars>>

\* const auto alpha = A(i,i); A(i,i) = one
LoopPivot ==
    /\ pc = "pivot"
    /\ alpha' = A[<<i, i>>]
    /\ A' = [A EXCEPT ![<<i, i>>] = One]
    /\ pc' = "larf"
    /\ UNCHANGED <<api, m, n, lda, sameType, tau, tauSize, buf, work, i,
                   info, heap, log>>
    /\ UNCHANGED <<lvars, kvars>>

\* v := A[i:m, i], C := A[i:m, i+1:n], w := work[i:n-1]; larf( left_side, v, tau[i], C, w )
LoopLarf ==
    /\ pc = "larf"
    /\ A' = larfOnA(A, m, n, i)
    /\ tau' = IF work.base = "tau" THEN larfOnWork(tau, work.off, n, i) ELSE tau
    /\ buf' = IF work.base = "buf" THEN larfOnWork(buf, work.off, n, i) ELSE buf
    /\ log' = Append(log, <<"larf", i>>)
    /\ pc' = "restore"
    /\ UNCHANGED <<api, m, n, lda, sameType, tauSize, work, i, alpha, info, heap>>
    /\ UNCHANGED <<lvars, kvars>>

MutLoopRestore ==
    /\ pc = "restore"
    /\ i' = i + 1
    /\ pc' = "loop"
    /\ UNCHANGED <<api, m, n, lda, sameType, A, tau, tauSize, buf, work, alpha,
                   info, heap, log>>
    /\ UNCHANGED <<lvars, kvars>>

\* A(i,i) = alpha; ++i
LoopRestore ==
    /\ pc = "restore"
    /\ A' = [A EXCEPT ![<<i, i>>] = alpha]
    /\ i' = i + 1
    /\ pc' = "loop"
    /\ UNCHANGED <<api, m, n, lda, sameType, tau, tauSize, buf, work, alpha,
                   info, heap, log>>
    /\ UNCHANGED <<lvars, kvars>>

\* after the loop, n-1 < m: x := A[n:m, n-1]; larfg( A(n-1,n-1), x, tau[n-1] ); return 0
TailLarfg ==
    /\ pc = "loop"
    /\ ~(i < K(m, n))
    /\ n - 1 < m
    /\ \E nontrivial \in BOOLEAN : A' = larfgOnA(A, m, n - 1, nontrivial)
    /\ tau' = larfgOnTau(tau, n - 1)
    /\ log' = Append(log, <<"larfg", n - 1>>)
    /\ info' = 0
    /\ pc' = "viewret"
    /\ UNCHANGED <<api, m, n, lda, sameType, tauSize, buf, work, i, alpha, heap>>
    /\ UNCHANGED <<lvars, kvars>>

\* after the loop, n-1 >= m: return 0
TailSkip ==
    /\ pc = "loop"
    /\ ~(i < K(m, n))
    /\ ~(n - 1 < m)
    /\ info' = 0
    /\ pc' = "viewret"
    /\ UNCHANGED <<api, m, n, lda, sameType, A, tau, tauSize, buf, work, i,
                   alpha, heap, log>>
    /\ UNCHANGED <<lvars, kvars>>

\* the kernel returns to a caller that used the view entry point
ViewExit ==
    /\ pc = "viewret"
    /\ api = "view"
    /\ pc' = "done"
    /\ UNCHANGED <<api, m, n, lda, sameType, A, tau, tauSize, buf, work, i,
                   alpha, info, heap, log>>
    /\ UNCHANGED <<lvars, kvars>>

Next ==
    \/ FlatEnter
    \/ ViewEnter
    \/ FlatError
    \/ FlatQuick
    \/ FlatWork
    \/ ViewError
    \/ ViewQuick
    \/ ViewStart
    \/ LoopLarfg
    \/ LoopPivot
    \/ LoopLarf
    \/ LoopRestore
    \/ TailLarfg
    \/ TailSkip
    \/ ViewExit
    \/ FlatExit

Spec == Init /\ [][Next]_vars

-----------------------------------------------------------------------------
(* Exact arithmetic for larfg.  A real number is a normalised fraction     *)
(* <<p, q>>, q > 0; a scalar is a pair <<re, im>> of real numbers (im = 0  *)
(* for a real scalar type).  Floating-point rounding is not modelled: the  *)
(* inputs are drawn so that every square root taken is exact.              *)

RECURSIVE GCD(_, _)
GCD(a, b) == IF b = 0 THEN a ELSE GCD(b, a % b)

IAbs(a) == IF a < 0 THEN -a ELSE a

\* the fraction p/q in lowest terms with a positive denominator
Frac(p, q) ==
    LET g == GCD(IAbs(p), IAbs(q))
    IN  IF q < 0 THEN <<(-p) \div g, (-q) \div g>> ELSE <<p \div g, q \div g>>

RZero == <<0, 1>>
ROne == <<1, 1>>

RNeg(a) == <<-a[1], a[2]>>
RAdd(a, b) ==
    LET g == GCD(a[2], b[2])
    IN  Frac(a[1] * (b[2] \div g) + b[1] * (a[2] \div g), (a[2] \div g) * b[2])
RSub(a, b) == RAdd(a, RNeg(b))
RMul(a, b) ==
    LET g1 == GCD(IAbs(a[1]), b[2])
        g2 == GCD(IAbs(b[1]), a[2])
    IN  Frac((a[1] \div g1) * (b[1] \div g2), (a[2] \div g2) * (b[2] \div g1))
RInv(a) == IF a[1] < 0 THEN <<-a[2], -a[1]>> ELSE <<a[2], a[1]>>
RDiv(a, b) == RMul(a, RInv(b))
RLt(a, b) == a[1] * b[2] < b[1] * a[2]
RLe(a, b) == a[1] * b[2] <= b[1] * a[2]
RMax(a, b) == IF RLt(a, b) THEN b ELSE a

\* blas::abs of a real number
abs(a) == IF a[1] < 0 THEN RNeg(a) ELSE a

IsSquare(k) == \E r \in 0 .. k : r * r = k
ISqrt(k) == CHOOSE r \in 0 .. k : r * r = k
\* sqrt of a real number that is the square of a fraction
RSqrt(a) == <<ISqrt(a[1]), ISqrt(a[2])>>

\* blas::real, blas::imag
real(z) == z[1]
imag(z) == z[2]
Cplx(re, im) == <<re, im>>
CZero == Cplx(RZero, RZero)
CReal(a) == Cplx(a, RZero)
CAdd(z, w) == Cplx(RAdd(z[1], w[1]), RAdd(z[2], w[2]))
CSub(z, w) == Cplx(RSub(z[1], w[1]), RSub(z[2], w[2]))
CMul(z, w) ==
    Cplx(RSub(RMul(z[1], w[1]), RMul(z[2], w[2])),
         RAdd(RMul(z[1], w[2]), RMul(z[2], w[1])))
CConj(z) == Cplx(z[1], RNeg(z[2]))
\* scalar times real, scalar divided by real
CScale(z, a) == Cplx(RMul(z[1], a), RMul(z[2], a))
CDivR(z, a) == Cplx(RDiv(z[1], a), RDiv(z[2], a))
\* |z|^2
CAbs2(z) == RAdd(RMul(z[1], z[1]), RMul(z[2], z[2]))
\* 1/z, computed on z scaled by its largest component
CInv(z) ==
    LET s == RMax(abs(z[1]), abs(z[2]))
        c == RDiv(z[1], s)
        d == RDiv(z[2], s)
        den == RMul(s, RAdd(RMul(c, c), RMul(d, d)))
    IN  Cplx(RDiv(c, den), RNeg(RDiv(d, den)))

\* sum of a sequence of reals
RECURSIVE RSum(_)
RSum(sq) == IF Len(sq) = 0 THEN RZero ELSE RAdd(Head(sq), RSum(Tail(sq)))
\* largest of a sequence of non-negative reals
RECURSIVE RMaxOf(_)
RMaxOf(sq) == IF Len(sq) = 0 THEN RZero ELSE RMax(Head(sq), RMaxOf(Tail(sq)))

\* the real and imaginary parts of the elements of x, as one sequence
Parts(x) == [q \in 1 .. (2 * Len(x)) |->
                IF q % 2 = 1 THEN x[(q + 1) \div 2][1] ELSE x[q \div 2][2]]

\* sqrt( sum of squares ) of a sequence of reals, scaled by its largest
\* magnitude so that no square leaves the range of the operands
ScaledNorm(sq) ==
    LET w == RMaxOf([q \in DOMAIN sq |-> abs(sq[q])])
    IN  IF w = RZero THEN RZero
        ELSE RMul(w, RSqrt(RSum([q \in DOMAIN sq |->
                                    RMul(RDiv(sq[q], w), RDiv(sq[q], w))])))

\* blas::nrm2( x ): the Euclidean norm of x
nrm2(x) == ScaledNorm(Parts(x))
\* lapack::lapy2( a, b ) = sqrt( a^2 + b^2 )
lapy2(a, b) == ScaledNorm(<<a, b>>)
\* lapack::lapy3( a, b, c ) = sqrt( a^2 + b^2 + c^2 )
lapy3(a, b, c) == ScaledNorm(<<a, b, c>>)
\* blas::scal( a, x ) with a scalar a: x := a * x
scal(a, x) == [q \in DOMAIN x |-> CMul(a, x[q])]

-----------------------------------------------------------------------------
(* larfg( alpha, x, tau ) *)

\* longest vector x
MaxLen == 2
\* inputs are integers divided by 2^e, e in 0 .. MaxScale
MaxScale == 4
\* and by 2^DeepScale, small enough for the rescaling loop to reach its bound
DeepScale == 24
\* the bound of knt in the rescaling loop
MaxKnt == 20

\* safemin = safe_min<real_t>() / uroundoff<real_t>(), rsafemin = one / safemin
safemin == <<1, 2>>
rsafemin == RDiv(ROne, safemin)

\* integer values of Re(alpha), Im(alpha), Re(x[j]), Im(x[j]) before scaling
AlphaRe == {-4, -3, -1, 0, 1, 2, 3, 4}
AlphaIm == {-2, 0, 1}
XRe == {-2, 0, 1, 2, 4}
XIm == {0, 2}

RECURSIVE Pow2(_)
Pow2(e) == IF e = 0 THEN 1 ELSE 2 * Pow2(e - 1)

\* the scalar (re + im i) / 2^e
Scaled(re, im, e) == Cplx(Frac(re, Pow2(e)), Frac(im, Pow2(e)))

\* vectors of scalars of length 0 .. MaxLen with the given integer parts
XInts(ims) ==
    UNION {[1 .. len -> XRe \X ims] : len \in 0 .. MaxLen}

\* the squared norm of the integer vector [alpha; x]
IntNorm2(a, xs) ==
    a[1] * a[1] + a[2] * a[2]
    + RSum([q \in DOMAIN xs |-> <<xs[q][1] * xs[q][1] + xs[q][2] * xs[q][2], 1>>])[1]
IntXNorm2(xs) == IntNorm2(<<0, 0>>, xs)

\* is_complex<alpha_t>::value ? lapy3( re, im, xnorm ) : lapy2( re, xnorm )
Temp(cplx, al, xnorm) ==
    IF ~cplx THEN lapy2(real(al), xnorm)
             ELSE lapy3(real(al), imag(al), xnorm)

\* variant: the sign of beta follows the sign of real(alpha)
MutSignedBeta(al, temp) == IF RLt(real(al), RZero) THEN RNeg(temp) ELSE temp

\* beta = (real(alpha) < rzero) ? temp : -temp
SignedBeta(al, temp) == IF RLt(real(al), RZero) THEN temp ELSE RNeg(temp)

\* variant: the identity shortcut is never taken
MutNonTrivial(xnorm, al) == RLe(RZero, xnorm)

\* xnorm > rzero || (imag(alpha) != rzero)
NonTrivial(xnorm, al) == RLt(RZero, xnorm) \/ imag(al) # RZero

RECURSIVE MutUnscale(_, _)
MutUnscale(beta, knt) ==
    IF knt <= 1 THEN beta ELSE MutUnscale(RMul(beta, safemin), knt - 1)

\* beta *= safemin, knt times
RECURSIVE Unscale(_, _)
Unscale(beta, knt) == IF knt = 0 THEN beta ELSE Unscale(RMul(beta, safemin), knt - 1)

\* the call is made: the caller owns alpha, x; tau is an output
InitLarfg ==
    /\ Geqr2Idle
    /\ KernelsIdle
    /\ lpc = "start"
    /\ lcomplex \in BOOLEAN
    /\ \E a \in AlphaRe \X (IF lcomplex THEN AlphaIm ELSE {0}),
          xs \in XInts(IF lcomplex THEN XIm ELSE {0}),
          e \in (0 .. MaxScale) \cup {DeepScale} :
        /\ IsSquare(IntXNorm2(xs))
        /\ IsSquare(IntNorm2(a, xs))
        /\ lin = [alpha |-> Scaled(a[1], a[2], e),
                   x |-> [q \in DOMAIN xs |-> Scaled(xs[q][1], xs[q][2], e)]]
    /\ lalpha = lin.alpha
    /\ lx = lin.x
    /\ ltau = "unset"
    /\ lbeta = RZero
    /\ lknt = 0

\* tau = 0; xnorm = nrm2( x ); x is zero and alpha is real: return
LarfgTrivial ==
    /\ lpc = "start"
    /\ ~NonTrivial(nrm2(lx), lalpha)
    /\ ltau' = CZero
    /\ lpc' = "done"
    /\ UNCHANGED <<lcomplex, lin, lalpha, lx, lbeta, lknt>>
    /\ UNCHANGED <<gvars, kvars>>

\* tau = 0; xnorm = nrm2( x ); temp = lapy( ... ); beta = -sign * temp
LarfgBeta ==
    /\ lpc = "start"
    /\ NonTrivial(nrm2(lx), lalpha)
    /\ ltau' = CZero
    /\ lknt' = 0
    /\ lbeta' = SignedBeta(lalpha, Temp(lcomplex, lalpha, nrm2(lx)))
    /\ lpc' = IF RLt(abs(lbeta'), safemin) THEN "scale" ELSE "finish"
    /\ UNCHANGED <<lcomplex, lin, lalpha, lx>>
    /\ UNCHANGED <<gvars, kvars>>

\* while( abs(beta) < safemin && knt < 20 ): knt++, scale x, beta, alpha
LarfgScale ==
    /\ lpc = "scale"
    /\ RLt(abs(lbeta), safemin) /\ lknt < MaxKnt
    /\ lknt' = lknt + 1
    /\ lx' = scal(CReal(rsafemin), lx)
    /\ lbeta' = RMul(lbeta, rsafemin)
    /\ lalpha' = CScale(lalpha, rsafemin)
    /\ UNCHANGED <<lpc, lcomplex, lin, ltau>>
    /\ UNCHANGED <<gvars, kvars>>

\* after the loop: xnorm = nrm2( x ); temp = lapy( ... ); beta = -sign * temp
LarfgRecompute ==
    /\ lpc = "scale"
    /\ ~(RLt(abs(lbeta), safemin) /\ lknt < MaxKnt)
    /\ lbeta' = SignedBeta(lalpha, Temp(lcomplex, lalpha, nrm2(lx)))
    /\ lpc' = "finish"
    /\ UNCHANGED <<lcomplex, lin, lalpha, lx, ltau, lknt>>
    /\ UNCHANGED <<gvars, kvars>>

\* tau = (beta - alpha) / beta; scal( one/(alpha-beta), x );
\* beta *= safemin, knt times; alpha = beta
LarfgFinish ==
    /\ lpc = "finish"
    /\ ltau' = CDivR(CSub(CReal(lbeta), lalpha), lbeta)
    /\ lx' = scal(CInv(CSub(lalpha, CReal(lbeta))), lx)
    /\ lbeta' = Unscale(lbeta, lknt)
    /\ lalpha' = CReal(lbeta')
    /\ lpc' = "done"
    /\ UNCHANGED <<lcomplex, lin, lknt>>
    /\ UNCHANGED <<gvars, kvars>>

NextLarfg ==
    \/ LarfgTrivial
    \/ LarfgBeta
    \/ LarfgScale
    \/ LarfgRecompute
    \/ LarfgFinish

SpecLarfg == InitLarfg /\ [][NextLarfg]_vars

-----------------------------------------------------------------------------
(* Properties of geqr2 *)

\* the arguments satisfy the documented preconditions of the entry point used
ValidCall ==
    IF api = "flat"
      THEN m >= 0 /\ n >= 0 /\ lda >= Max(1, m)
      ELSE api = "view" /\ tauSize >= Min(m, n) /\ work.size >= n - 1

AUnwritten == \A p \in DOMAIN A : A[p] = In
TauUnwritten == \A j \in DOMAIN tau : tau[j] = In
BufUnwritten == \A j \in DOMAIN buf : buf[j] = Uninit

\* the columns of the larfg events of the log, in order
IsLarfg(e) == e[1] = "larfg"
IsKernelEvent(e) == e[1] \in {"larfg", "larf"}
LarfgEvents == SelectSeq(log, IsLarfg)
KernelEvents == SelectSeq(log, IsKernelEvent)

\* C1: the flat call returns -1 when m < 0, otherwise -2 when n < 0, otherwise
\* -4 when lda < m; on such a call no element of A or tau is ever written and
\* no scratch buffer is ever acquired.
C1_FlatErrorCodes ==
    (api = "flat" /\ (m < 0 \/ n < 0 \/ lda < m)) =>
        /\ AUnwritten
        /\ TauUnwritten
        /\ heap.acquired = 0
        /\ work = NoWork
        /\ pc \in {"flat", "done"}
        /\ pc = "done" =>
              info = (IF m < 0 THEN -1 ELSE IF n < 0 THEN -2 ELSE -4)

C1_Witness ==
    /\ pc = "done"
    /\ api = "flat"
    /\ m = 2 /\ n = 2 /\ lda = 1
    /\ info = -4

\* C2 (as claimed): for m >= 0, n >= 0 and lda < max(1,m) the flat call
\* returns -4 and leaves A and tau unmodified.
C2_LdaBelowMax1Rejected ==
    (pc = "done" /\ api = "flat" /\ m >= 0 /\ n >= 0 /\ lda < Max(1, m)) =>
        /\ info = -4
        /\ AUnwritten
        /\ TauUnwritten

C5_TauReuseSafe ==
    (work.base = "tau" /\ n - 1 < m) =>
        /\ (pc \in {"loop", "pivot", "larf", "restore"}) =>
              \A j \in WRange(n, i) :
                  /\ work.off + j \in (i + 1) .. (n - 1)
                  /\ work.off + j \in 0 .. (Min(m, n) - 1)
                  /\ work.off + j \in DOMAIN tau
        /\ \A e \in {LarfgEvents[q] : q \in DOMAIN LarfgEvents} :
              tau[e[2]] = TauOf(e[2])
        /\ (pc \in {"viewret", "done"} /\ info = 0) =>
              \A j \in 0 .. (Min(m, n) - 1) : tau[j] = TauOf(j)

C5_Witness ==
    /\ pc = "done"
    /\ api = "flat"
    /\ work.base = "tau"
    /\ m = 3 /\ n = 3
    /\ info = 0
    /\ \A j \in 0 .. 2 : tau[j] = TauOf(j)
    /\ <<"larf", 1>> \in {log[q] : q \in DOMAIN log}

\* C6: a valid call with n >= 1 returns 0, and larfg is called on tau[0],
\* tau[1], ..., tau[min(m,n)-1], once each, in this order, and on no other
\* entry of tau.
C6_TauAssignedOnceInOrder ==
    /\ \A q \in DOMAIN LarfgEvents : LarfgEvents[q] = <<"larfg", q - 1>>
    /\ Len(LarfgEvents) <= Max(0, Min(m, n))
    /\ \A j \in DOMAIN tau :
          (tau[j] = TauOf(j)) => (j < Len(LarfgEvents))
    /\ (pc = "done" /\ ValidCall /\ n >= 1) =>
          /\ info = 0
          /\ Len(LarfgEvents) = Min(m, n)

C6_Witness ==
    /\ pc = "done"
    /\ ValidCall
    /\ m = 2 /\ n = 3
    /\ info = 0
    /\ Len(LarfgEvents) = 2

\* the order of kernel events the claim describes for an m-by-n call
ExpectedEvents(mm, nn) ==
    [q \in 1 .. (2 * Min(mm, nn - 1)) |->
        IF q % 2 = 1 THEN <<"larfg", (q - 1) \div 2>>
                     ELSE <<"larf", (q - 2) \div 2>>]
    \o (IF nn - 1 < mm THEN << <<"larfg", nn - 1>> >> ELSE << >>)

\* C7: columns 0 .. k-1, k = min(m, n-1), are processed in increasing order,
\* in each the reflector is generated by larfg before larf applies it to
\* A[i:m, i+1:n]; exactly when n-1 < m one more reflector is generated for
\* column n-1 and never applied.
C7_ColumnOrder ==
    /\ \A q \in DOMAIN KernelEvents :
          q <= Len(ExpectedEvents(m, n)) /\ KernelEvents[q] = ExpectedEvents(m, n)[q]
    /\ (pc = "pivot") =>
          \A p \in DOMAIN A :
              (A[p] \in {BetaOf(i), VOf(i)}) =>
                  (p[2] = i /\ p[1] >= i /\ (A[p] = BetaOf(i)) = (p[1] = i))
    /\ (pc = "restore") =>
          \A p \in DOMAIN A :
              (A[p] = COf(i)) = (p[1] \in i .. (m - 1) /\ p[2] \in (i + 1) .. (n - 1))
    /\ (pc = "done" /\ info = 0 /\ n >= 1) =>
          /\ KernelEvents = ExpectedEvents(m, n)
          /\ (n - 1 < m) =>
                /\ KernelEvents[Len(KernelEvents)] = <<"larfg", n - 1>>
                /\ <<"larf", n - 1>> \notin {log[q] : q \in DOMAIN log}
          /\ ~(n - 1 < m) => Len(KernelEvents) = 2 * m

C7_Witness ==
    /\ pc = "done"
    /\ m = 3 /\ n = 2
    /\ info = 0
    /\ KernelEvents = << <<"larfg", 0>>, <<"larf", 0>>, <<"larfg", 1>> >>

-----------------------------------------------------------------------------
(* Properties of larfg *)

XIsZero(x) == \A q \in DOMAIN x : x[q] = CZero

\* [alpha; x] as one vector
Stack(al, x) == <<al>> \o x

\* the norm of the input vector [alpha; x]
InputNorm == ScaledNorm(Parts(Stack(lin.alpha, lin.x)))

\* beta = -sign(Re alpha) * norm([alpha; x]), negative when Re(alpha) = 0
ClaimedBeta ==
    IF RLt(real(lin.alpha), RZero) THEN InputNorm ELSE RNeg(InputNorm)

\* u^H y for vectors u, y of equal length
RECURSIVE CSum(_)
CSum(sq) == IF Len(sq) = 0 THEN CZero ELSE CAdd(Head(sq), CSum(Tail(sq)))
Dot(u, y) == CSum([q \in DOMAIN u |-> CMul(CConj(u[q]), y[q])])

\* (I - t u u^H) y
Reflect(t, u, y) ==
    [q \in DOMAIN y |-> CSub(y[q], CMul(t, CMul(u[q], Dot(u, y))))]

\* C8: on a zero vector x with a real, non-negative alpha, larfg sets tau = 0
\* and leaves alpha and every element of x unchanged.
C8_ZeroVectorIdentity ==
    (lpc = "done" /\ XIsZero(lin.x) /\ imag(lin.alpha) = RZero
        /\ RLe(RZero, real(lin.alpha))) =>
        /\ ltau = CZero
        /\ lalpha = lin.alpha
        /\ lx = lin.x

C8_Witness ==
    /\ lpc = "done"
    /\ Len(lin.x) = 2
    /\ XIsZero(lin.x)
    /\ lin.alpha = CReal(<<3, 1>>)
    /\ ltau = CZero
    /\ lalpha = lin.alpha

\* C9: larfg returns tau # 0 exactly when x has a non-zero element or alpha
\* has a non-zero imaginary part, and then 1 <= Re(tau) <= 2 and
\* |tau - 1| <= 1, also when the rescaling loop has run.
C9_TauRange ==
    (lpc = "done") =>
        /\ (ltau # CZero) = (~XIsZero(lin.x) \/ imag(lin.alpha) # RZero)
        /\ (ltau # CZero) =>
              /\ RLe(ROne, real(ltau))
              /\ RLe(real(ltau), <<2, 1>>)
              /\ RLe(CAbs2(CSub(ltau, CReal(ROne))), ROne)

C9_Witness ==
    /\ lpc = "done"
    /\ lknt >= 2
    /\ imag(lin.alpha) # RZero
    /\ ~XIsZero(lin.x)
    /\ ltau # CZero
    /\ RLt(ROne, real(ltau))

\* C10 (as claimed): on the non-trivial path, with beta = -sign(Re alpha) *
\* norm([alpha; x]), tau = (beta - alpha)/beta, x is overwritten by
\* v = x/(alpha - beta), alpha by beta, and H = I - tau [1;v] [1;v]^H maps
\* the input [alpha; x] to [beta; 0].
C10_ReflectorMapsInput ==
    (lpc = "done" /\ (~XIsZero(lin.x) \/ imag(lin.alpha) # RZero)) =>
        /\ ltau = CDivR(CSub(CReal(ClaimedBeta), lin.alpha), ClaimedBeta)
        /\ lx = [q \in DOMAIN lin.x |->
                    CMul(lin.x[q], CInv(CSub(lin.alpha, CReal(ClaimedBeta))))]
        /\ lalpha = CReal(ClaimedBeta)
        /\ Reflect(ltau, Stack(CReal(ROne), lx), Stack(lin.alpha, lin.x))
             = Stack(CReal(ClaimedBeta), [q \in DOMAIN lin.x |-> CZero])

-----------------------------------------------------------------------------
(* blas::copy( x, y ) on strided vector views *)

\* number of storage cells the caller owns
MaxMem == 6
\* longest vector view
MaxVec == 3

\* strides of the views
Strides == {-2, -1, 1, 2}

\* the storage on entry: every cell holds a different value
InitMem == [a \in 0 .. (MaxMem - 1) |-> 10 + a]

\* the storage cell of element j of the view v
Addr(v, j) == v.base + j * v.stride
\* the storage cells of the elements of the view v
Cells(v) == {Addr(v, j) : j \in 0 .. (v.size - 1)}

\* the vector views that lie inside the storage
Views ==
    {v \in [base : 0 .. (MaxMem - 1), size : 0 .. MaxVec, stride : Strides] :
        Cells(v) \subseteq DOMAIN InitMem}

\* the value read from a storage cell; outside the storage it is arbitrary
Garbage == "garbage"
Load(mem, a) == IF a \in DOMAIN mem THEN mem[a] ELSE Garbage
\* the storage after a store to a cell
Store(mem, a, val) == IF a \in DOMAIN mem THEN [mem EXCEPT ![a] = val] ELSE mem

\* variant: the loop stops one element early
MutCopyN(sy) == sy - 1

\* const idx_t n = size(y)
CopyN(sy) == sy

\* variant: a vector x one element too short is accepted
MutCopyArgError(sx, nn) == sx + 1 < nn

\* blas_error_if( size(x) < n )
CopyArgError(sx, nn) == sx < nn

\* copy( x, y ) is called on two views of the caller's storage
InitCopy ==
    /\ Geqr2Idle
    /\ LarfgIdle
    /\ SyrkIdle
    /\ LasetIdle
    /\ LarnvIdle
    /\ cpc = "copy"
    /\ cmem = InitMem
    /\ cx \in Views
    /\ cy \in Views
    /\ ci = 0
    /\ cerr = FALSE

\* blas_error_if( size(x) < n ) signals the error
CopyError ==
    /\ cpc = "copy"
    /\ CopyArgError(cx.size, CopyN(cy.size))
    /\ cerr' = TRUE
    /\ cpc' = "done"
    /\ UNCHANGED <<cmem, cx, cy, ci>>
    /\ UNCHANGED <<gvars, lvars, svars, avars, rvars>>

\* the check passes and the loop is entered with i = 0
CopyStart ==
    /\ cpc = "copy"
    /\ ~CopyArgError(cx.size, CopyN(cy.size))
    /\ ci' = 0
    /\ cpc' = "loop"
    /\ UNCHANGED <<cmem, cx, cy, cerr>>
    /\ UNCHANGED <<gvars, lvars, svars, avars, rvars>>

\* i < n: y[i] = x[i]; ++i
CopyStep ==
    /\ cpc = "loop"
    /\ ci < CopyN(cy.size)
    /\ cmem' = Store(cmem, Addr(cy, ci), Load(cmem, Addr(cx, ci)))
    /\ ci' = ci + 1
    /\ UNCHANGED <<cpc, cx, cy, cerr>>
    /\ UNCHANGED <<gvars, lvars, svars, avars, rvars>>

\* i = n: return
CopyReturn ==
    /\ cpc = "loop"
    /\ ~(ci < CopyN(cy.size))
    /\ cpc' = "done"
    /\ UNCHANGED <<cmem, cx, cy, ci, cerr>>
    /\ UNCHANGED <<gvars, lvars, svars, avars, rvars>>

NextCopy ==
    \/ CopyError
    \/ CopyStart
    \/ CopyStep
    \/ CopyReturn

SpecCopy == InitCopy /\ [][NextCopy]_vars

\* C11: with size(x) >= size(y) and disjoint storage, copy leaves y[j] equal
\* to x[j] for every j < size(y), for every length and every stride; x is
\* unchanged and no cell outside the elements of y is ever written.
C11_CopyReproducesX ==
    (cx.size >= cy.size /\ Cells(cx) \cap Cells(cy) = {}) =>
        /\ ~cerr
        /\ \A a \in DOMAIN cmem : (a \notin Cells(cy)) => cmem[a] = InitMem[a]
        /\ \A j \in 0 .. (cx.size - 1) : cmem[Addr(cx, j)] = InitMem[Addr(cx, j)]
        /\ (cpc = "done") =>
              \A j \in 0 .. (cy.size - 1) : cmem[Addr(cy, j)] = InitMem[Addr(cx, j)]

C11_Witness ==
    /\ cpc = "done"
    /\ cx = [base |-> 2, size |-> 3, stride |-> -1]
    /\ cy = [base |-> 3, size |-> 3, stride |-> 1]
    /\ cmem[3] = InitMem[2] /\ cmem[4] = InitMem[1] /\ cmem[5] = InitMem[0]

\* C12: with size(x) < size(y), copy signals the precondition error before
\* any element of y is written, and y (all storage) is unchanged afterwards.
C12_CopyShortXRejected ==
    (cx.size < cy.size) =>
        /\ cmem = InitMem
        /\ cpc \in {"copy", "done"}
        /\ (cpc = "done") => cerr

C12_Witness ==
    /\ cpc = "done"
    /\ cerr
    /\ cx.size = 2
    /\ cy.size = 3
    /\ cmem = InitMem


\* ---------------------------------------------------------------------
\* blas::syrk, the array interface (symmetric rank-k update)
\* ---------------------------------------------------------------------

MaxN == 2
MaxK == 1
MaxLd == 3

Layouts == {"ColMajor", "RowMajor", "BadLayout"}
Uplos == {"Lower", "Upper", "General", "BadUplo"}
Ops == {"NoTrans", "Trans", "ConjTrans", "BadOp"}
Alphas == {0, 2}
Betas == {0, 1, 2}

\* the array C as the caller passes it: distinct non-zero entries
InitC == [c \in 0 .. (MaxLd * MaxN - 1) |-> 1 + c]

\* the array A as the caller passes it (A is const)
InitA == [a \in 0 .. (MaxLd * Max(MaxN, MaxK) - 1) |-> 1 + a]

SyrkArgs ==
    [layout : Layouts, uplo : Uplos, trans : Ops,
     n : -1 .. MaxN, k : -1 .. MaxK, alpha : Alphas, lda : 0 .. MaxLd,
     beta : Betas, ldc : 0 .. MaxLd, complexA : BOOLEAN, complexC : BOOLEAN]

\* the smallest lda the argument check accepts
LdaMin(a) ==
    IF a.layout = "RowMajor"
    THEN (IF a.trans = "NoTrans" THEN a.k ELSE a.n)
    ELSE (IF a.trans = "NoTrans" THEN a.n ELSE a.k)

MutSyrkArgError(a) ==
    \/ a.layout # "ColMajor" /\ a.layout # "RowMajor"
    \/ a.uplo # "Lower" /\ a.uplo # "Upper" /\ a.uplo # "General"
    \/ a.trans # "NoTrans" /\ a.trans # "Trans" /\ a.trans # "ConjTrans"
    \/ a.complexA /\ a.trans = "ConjTrans"
    \/ a.n < 0
    \/ a.k < 0
    \/ a.lda < LdaMin(a)

MutSyrkNoConjCheck(a) ==
    \/ a.layout # "ColMajor" /\ a.layout # "RowMajor"
    \/ a.uplo # "Lower" /\ a.uplo # "Upper" /\ a.uplo # "General"
    \/ a.trans # "NoTrans" /\ a.trans # "Trans" /\ a.trans # "ConjTrans"
    \/ a.n < 0
    \/ a.k < 0
    \/ a.lda < LdaMin(a)
    \/ a.ldc < a.n

\* the argument checks, each a blas_error_if that throws
SyrkArgError(a) ==
    \/ a.layout # "ColMajor" /\ a.layout # "RowMajor"
    \/ a.uplo # "Lower" /\ a.uplo # "Upper" /\ a.uplo # "General"
    \/ a.trans # "NoTrans" /\ a.trans # "Trans" /\ a.trans # "ConjTrans"
    \/ a.complexA /\ a.trans = "ConjTrans"
    \/ a.n < 0
    \/ a.k < 0
    \/ a.lda < LdaMin(a)
    \/ a.ldc < a.n

\* trans after "ConjTrans is Trans for real data"
RealTrans(t) == IF t = "ConjTrans" THEN "Trans" ELSE t

MutEffUplo(a) == a.uplo

\* uplo after the adaptation to a row-major layout
EffUplo(a) ==
    IF a.layout = "RowMajor"
    THEN (IF a.uplo = "Lower" THEN "Upper"
          ELSE IF a.uplo = "Upper" THEN "Lower" ELSE a.uplo)
    ELSE a.uplo

\* trans after the adaptation to a row-major layout
EffTrans(a) ==
    IF a.layout = "RowMajor"
    THEN (IF RealTrans(a.trans) = "NoTrans" THEN "Trans" ELSE "NoTrans")
    ELSE RealTrans(a.trans)

\* offset of entry (r, c) of a column-major view with leading dimension ld
ColMajorAt(r, c, ld) == r + c * ld

\* entries (i, j) of _C that the alpha = 0 path writes
FastCells(uplo, nn) ==
    IF uplo # "Upper"
    THEN {ij \in (0 .. (nn - 1)) \X (0 .. (nn - 1)) : ij[1] <= ij[2]}
    ELSE IF uplo # "Lower"
    THEN {ij \in (0 .. (nn - 1)) \X (0 .. (nn - 1)) : ij[1] >= ij[2]}
    ELSE (0 .. (nn - 1)) \X (0 .. (nn - 1))

\* the offsets in C of a set of entries of _C
OffsetsOf(cells, ld) == {ColMajorAt(ij[1], ij[2], ld) : ij \in cells}

\* C after the alpha = 0 path
FastPath(C, a) ==
    LET W == OffsetsOf(FastCells(EffUplo(a), a.n), a.ldc)
    IN  IF a.beta = 0 THEN [c \in DOMAIN C |-> IF c \in W THEN 0 ELSE C[c]]
        ELSE IF a.beta # 1
        THEN [c \in DOMAIN C |-> IF c \in W THEN C[c] * a.beta ELSE C[c]]
        ELSE C

\* the arguments handed to the view-based syrk
ViewCall(a) ==
    [uplo |-> EffUplo(a), trans |-> EffTrans(a), alpha |-> a.alpha,
     rows |-> IF EffTrans(a) = "NoTrans" THEN a.n ELSE a.k,
     cols |-> IF EffTrans(a) = "NoTrans" THEN a.k ELSE a.n,
     lda |-> a.lda, beta |-> a.beta, n |-> a.n, ldc |-> a.ldc]

\* entry (i, l) of op(_A)
OpA(v, ii, l) ==
    IF v.trans = "NoTrans" THEN InitA[ColMajorAt(ii, l, v.lda)]
    ELSE InitA[ColMajorAt(l, ii, v.lda)]

RECURSIVE RankK(_, _, _, _)
\* sum over l < kk of op(_A)(i, l) * op(_A)(j, l)
RankK(v, ii, jj, kk) ==
    IF kk = 0 THEN 0
    ELSE RankK(v, ii, jj, kk - 1) + OpA(v, ii, kk - 1) * OpA(v, jj, kk - 1)

\* entries of _C that the view-based syrk updates
ViewCells(uplo, nn) ==
    {ij \in (0 .. (nn - 1)) \X (0 .. (nn - 1)) :
        \/ uplo = "General"
        \/ uplo = "Lower" /\ ij[1] >= ij[2]
        \/ uplo = "Upper" /\ ij[1] <= ij[2]}

\* C after the view-based syrk: alpha * op(A) * op(A)^T + beta * C
ViewSyrk(C, v) ==
    LET kk == IF v.trans = "NoTrans" THEN v.cols ELSE v.rows
        upd == ViewCells(v.uplo, v.n)
    IN  [c \in DOMAIN C |->
            IF \E ij \in upd : ColMajorAt(ij[1], ij[2], v.ldc) = c
            THEN LET ij == CHOOSE e \in upd : ColMajorAt(e[1], e[2], v.ldc) = c
                 IN  v.alpha * RankK(v, ij[1], ij[2], kk) + v.beta * C[c]
            ELSE C[c]]

\* cells of A that the view-based syrk reads
ViewReads(v) ==
    {ColMajorAt(r, c, v.lda) : r \in 0 .. (v.rows - 1), c \in 0 .. (v.cols - 1)}

\* the outcome of one call of syrk
SyrkResult(a) ==
    IF SyrkArgError(a)
    THEN [err |-> TRUE, C |-> InitC, reads |-> {}, call |-> NoCall]
    ELSE IF a.n = 0
    THEN [err |-> FALSE, C |-> InitC, reads |-> {}, call |-> NoCall]
    ELSE IF a.alpha = 0
    THEN [err |-> FALSE, C |-> FastPath(InitC, a), reads |-> {}, call |-> NoCall]
    ELSE [err |-> FALSE, C |-> ViewSyrk(InitC, ViewCall(a)),
          reads |-> ViewReads(ViewCall(a)), call |-> ViewCall(a)]

InitSyrk ==
    /\ Geqr2Idle
    /\ LarfgIdle
    /\ CopyIdle
    /\ LasetIdle
    /\ LarnvIdle
    /\ spc = "syrk"
    /\ sarg \in SyrkArgs
    /\ sC = InitC
    /\ sreads = {}
    /\ scall = NoCall
    /\ serr = FALSE

\* an argument check throws
SyrkError ==
    /\ spc = "syrk"
    /\ SyrkArgError(sarg)
    /\ spc' = "done"
    /\ serr' = TRUE
    /\ UNCHANGED <<sarg, sC, sreads, scall>>
    /\ UNCHANGED <<gvars, lvars, cvars, avars, rvars>>

\* quick return
SyrkQuick ==
    /\ spc = "syrk"
    /\ ~SyrkArgError(sarg)
    /\ sarg.n = 0
    /\ spc' = "done"
    /\ UNCHANGED <<sarg, sC, sreads, scall, serr>>
    /\ UNCHANGED <<gvars, lvars, cvars, avars, rvars>>

\* alpha == zero
SyrkAlphaZero ==
    /\ spc = "syrk"
    /\ ~SyrkArgError(sarg)
    /\ sarg.n # 0
    /\ sarg.alpha = 0
    /\ spc' = "done"
    /\ sC' = FastPath(sC, sarg)
    /\ UNCHANGED <<sarg, sreads, scall, serr>>
    /\ UNCHANGED <<gvars, lvars, cvars, avars, rvars>>

\* the general update
SyrkGeneral ==
    /\ spc = "syrk"
    /\ ~SyrkArgError(sarg)
    /\ sarg.n # 0
    /\ sarg.alpha # 0
    /\ spc' = "done"
    /\ scall' = ViewCall(sarg)
    /\ sreads' = ViewReads(ViewCall(sarg))
    /\ sC' = ViewSyrk(sC, ViewCall(sarg))
    /\ UNCHANGED <<sarg, serr>>
    /\ UNCHANGED <<gvars, lvars, cvars, avars, rvars>>

NextSyrk ==
    \/ SyrkError
    \/ SyrkQuick
    \/ SyrkAlphaZero
    \/ SyrkGeneral

SpecSyrk == InitSyrk /\ [][NextSyrk]_vars

\* offset in C of the entry in row r and column c, as the caller's layout
\* stores it
At(a, r, c) == IF a.layout = "RowMajor" THEN r * a.ldc + c ELSE r + c * a.ldc

\* offsets of the entries of the triangle that the caller's uplo selects
Selected(a) ==
    {At(a, rc[1], rc[2]) : rc \in {e \in (0 .. (a.n - 1)) \X (0 .. (a.n - 1)) :
        \/ a.uplo = "General"
        \/ a.uplo = "Lower" /\ e[1] >= e[2]
        \/ a.uplo = "Upper" /\ e[1] <= e[2]}}

\* a call that passed the argument checks and returned
SyrkDone == spc = "done" /\ ~serr

\* C13: with alpha = 0 and beta = 0, syrk zeroes exactly the entries of
\* the triangle that uplo (Lower or Upper) selects, diagonal included, and
\* leaves every other entry of C as it was, in both layouts
C13_ZeroSelectedTriangle ==
    (SyrkDone /\ sarg.alpha = 0 /\ sarg.beta = 0
        /\ sarg.uplo \in {"Lower", "Upper"})
        => \A c \in DOMAIN sC :
               sC[c] = IF c \in Selected(sarg) THEN 0 ELSE InitC[c]


\* C14: with alpha = 0 and uplo = General, syrk updates all n*n entries of
\* C: each becomes zero when beta = 0 and beta times its old value when
\* beta is neither 0 nor 1
C14_GeneralUpdatesAll ==
    (SyrkDone /\ sarg.alpha = 0 /\ sarg.uplo = "General" /\ sarg.beta # 1)
        => \A r \in 0 .. (sarg.n - 1), c \in 0 .. (sarg.n - 1) :
               sC[At(sarg, r, c)] = sarg.beta * InitC[At(sarg, r, c)]

\* C15: with alpha = 0, syrk reads no element of A and does not call the
\* general update; beta = 1 leaves C unchanged; beta not in {0, 1}
\* multiplies each entry of the selected triangle by beta once and changes
\* nothing else
C15_AlphaZeroFrame ==
    (SyrkDone /\ sarg.alpha = 0)
        => /\ sreads = {}
           /\ scall = NoCall
           /\ sarg.beta = 1 => sC = InitC
           /\ sarg.beta \notin {0, 1} =>
                  \A c \in DOMAIN sC :
                      sC[c] = IF c \in Selected(sarg)
                              THEN sarg.beta * InitC[c] ELSE InitC[c]

\* what the call has done: the error signal, C, the cells of A read and the
\* arguments of the general update
Outcome == [err |-> serr, C |-> sC, reads |-> sreads, call |-> scall]

\* the column-major call that a row-major call is said to equal
Twin(a) ==
    [a EXCEPT !.layout = "ColMajor",
              !.uplo = IF a.uplo = "Lower" THEN "Upper"
                       ELSE IF a.uplo = "Upper" THEN "Lower" ELSE a.uplo,
              !.trans = IF a.trans = "NoTrans" THEN "Trans"
                        ELSE IF a.trans \in {"Trans", "ConjTrans"}
                        THEN "NoTrans" ELSE a.trans]

\* C16 as stated: every RowMajor call does what the ColMajor call with
\* uplo swapped and trans toggled (ConjTrans first mapped to Trans) does
C16_RowMajorAsColMajor ==
    (spc = "done" /\ sarg.layout = "RowMajor")
        => Outcome = SyrkResult(Twin(sarg))

\* C16, amended: a RowMajor call other than ConjTrans on complex A does
\* what the ColMajor call with uplo swapped and trans toggled does: the
\* same error signal, the same reads of A and the same writes of C
C16_RowMajorAsColMajorLegalTrans ==
    (spc = "done" /\ sarg.layout = "RowMajor"
        /\ ~(sarg.complexA /\ sarg.trans = "ConjTrans"))
        => Outcome = SyrkResult(Twin(sarg))

C16_Witness ==
    /\ SyrkDone
    /\ sarg.layout = "RowMajor"
    /\ sarg.uplo = "Lower"
    /\ sarg.trans = "ConjTrans"
    /\ sarg.n = MaxN
    /\ sarg.k = MaxK
    /\ sreads # {}
    /\ scall # NoCall
    /\ scall.uplo = "Upper"
    /\ scall.trans = "NoTrans"
    /\ sC # InitC

\* C17 as stated: ConjTrans is an error whenever the scalar type of the
\* operation (of A and C together) is complex; with real scalars it gives
\* the C that Trans gives
C17_ConjTransComplexScalar ==
    (spc = "done" /\ sarg.trans = "ConjTrans")
        => /\ (sarg.complexA \/ sarg.complexC) => serr
           /\ ~(sarg.complexA \/ sarg.complexC) =>
                  /\ serr = SyrkResult([sarg EXCEPT !.trans = "Trans"]).err
                  /\ sC = SyrkResult([sarg EXCEPT !.trans = "Trans"]).C

\* C17, amended: ConjTrans is an error whenever the type of A is complex;
\* with a real A, whatever the type of C, it gives the C that Trans gives
C17_ConjTransComplexA ==
    (spc = "done" /\ sarg.trans = "ConjTrans")
        => /\ sarg.complexA => serr
           /\ ~sarg.complexA =>
                  /\ serr = SyrkResult([sarg EXCEPT !.trans = "Trans"]).err
                  /\ sC = SyrkResult([sarg EXCEPT !.trans = "Trans"]).C

C17_Witness ==
    /\ SyrkDone
    /\ sarg.trans = "ConjTrans"
    /\ ~sarg.complexA
    /\ sarg.complexC
    /\ sarg.n = MaxN
    /\ sarg.k = MaxK
    /\ sarg.alpha # 0
    /\ sC # InitC

\* the leading dimension of A that the layout and trans call for
Lead(a) ==
    IF (a.layout = "ColMajor") = (a.trans = "NoTrans") THEN a.n ELSE a.k

\* one of the listed argument checks fails
Listed(a) ==
    \/ a.layout \notin {"ColMajor", "RowMajor"}
    \/ a.uplo \notin {"Lower", "Upper", "General"}
    \/ a.trans \notin {"NoTrans", "Trans", "ConjTrans"}
    \/ a.n < 0
    \/ a.k < 0
    \/ a.lda < Lead(a)
    \/ a.ldc < a.n

\* C18: every argument check precedes every write of C, so a call that
\* signals an error leaves C as it was (and reads nothing); a call with
\* n = 0 that passes the checks reads no element of A and writes none of C
C18_ChecksBeforeWrites ==
    spc = "done"
        => /\ Listed(sarg) => serr
           /\ serr => sC = InitC /\ sreads = {} /\ scall = NoCall
           /\ (~serr /\ sarg.n = 0) =>
                  sC = InitC /\ sreads = {} /\ scall = NoCall

C18_Witness ==
    /\ spc = "done"
    /\ serr
    /\ sarg.ldc < sarg.n
    /\ sarg.layout = "ColMajor"
    /\ sarg.uplo = "Lower"
    /\ sarg.trans = "NoTrans"
    /\ sarg.k = MaxK
    /\ sarg.lda >= sarg.n
    /\ sC = InitC


\* ---------------------------------------------------------------------
\* blas::internal::set_complex and lapack::larnv
\* ---------------------------------------------------------------------

MaxX == 3
MaxSeed == 2

\* idist is a template argument: 1 .. 5 are documented, others compile too
Idists == 0 .. 6

\* the value an element holds before the call
Old == <<"old", 0, 0>>

\* the g-th value that distribution d draws from the generator seeded
\* with seed
Draw(d, seed, g) == <<d, seed, g>>

\* the distribution object of idist
Dist(idist) ==
    IF idist = 1 THEN "uniform(0,1)"
    ELSE IF idist = 2 THEN "uniform(-1,1)"
    ELSE IF idist = 3 THEN "normal(0,1)"
    ELSE "uniform(0,1)"

MutSeeded(a) == a.device

\* the state of the generator after std::mt19937 generator(device()) and
\* generator.seed(iseed): that of a generator seeded with iseed
Seeded(a) == a.seed

\* the pair (re, im) that a direct call of set_complex passes
ReArg == <<"re", 0, 0>>
ImArg == <<"im", 0, 0>>

MutSetComplex(isComplex, x, re, im) ==
    IF isComplex THEN [x |-> [re |-> re, im |-> im], err |-> FALSE]
    ELSE [x |-> re, err |-> TRUE]

\* set_complex( x, re, im ): the overload for a complex x stores the pair,
\* the overload for a real x reports an error
SetComplex(isComplex, x, re, im) ==
    IF isComplex THEN [x |-> [re |-> re, im |-> im], err |-> FALSE]
    ELSE [x |-> x, err |-> TRUE]

\* the two arguments d(generator), d(generator) of one call, which the
\* compiler may evaluate in either order
TwoDraws(a, g) ==
    IF a.reFirst
    THEN [re |-> Draw(Dist(a.idist), Seeded(a), g),
          im |-> Draw(Dist(a.idist), Seeded(a), g + 1)]
    ELSE [re |-> Draw(Dist(a.idist), Seeded(a), g + 1),
          im |-> Draw(Dist(a.idist), Seeded(a), g)]

LarnvArgs ==
    [op : {"larnv", "set_complex"}, idist : Idists, complexT : BOOLEAN,
     n : 0 .. MaxX, seed : 0 .. MaxSeed, device : 0 .. MaxSeed,
     reFirst : BOOLEAN]

\* the loop that idist and the type of x select runs
LarnvLoops(a) == a.idist \in 1 .. 3 \/ (a.complexT /\ a.idist \in 4 .. 5)

InitLarnv ==
    /\ Geqr2Idle
    /\ LarfgIdle
    /\ CopyIdle
    /\ SyrkIdle
    /\ LasetIdle
    /\ rarg \in LarnvArgs
    /\ rarg.op = "set_complex" =>
           (rarg.n = 1 /\ rarg.idist = 0 /\ rarg.reFirst /\ rarg.device = 0)
    /\ rpc = rarg.op
    /\ rx = [e \in 1 .. rarg.n |-> Old]
    /\ rseed = rarg.seed
    /\ rgen = 0
    /\ ri = 0
    /\ rerr = FALSE

\* set_complex on a real x
SetComplexReal ==
    /\ rpc = "set_complex"
    /\ ~rarg.complexT
    /\ rx' = [rx EXCEPT ![1] = SetComplex(FALSE, rx[1], ReArg, ImArg).x]
    /\ rerr' = SetComplex(FALSE, rx[1], ReArg, ImArg).err
    /\ rpc' = "done"
    /\ UNCHANGED <<rarg, rseed, rgen, ri>>
    /\ UNCHANGED <<gvars, lvars, cvars, svars, avars>>

\* set_complex on a complex x
SetComplexStore ==
    /\ rpc = "set_complex"
    /\ rarg.complexT
    /\ rx' = [rx EXCEPT ![1] = SetComplex(TRUE, rx[1], ReArg, ImArg).x]
    /\ rerr' = SetComplex(TRUE, rx[1], ReArg, ImArg).err
    /\ rpc' = "done"
    /\ UNCHANGED <<rarg, rseed, rgen, ri>>
    /\ UNCHANGED <<gvars, lvars, cvars, svars, avars>>

\* idist 1, 2, 3 on a real x: x[i] = d(generator)
LarnvReal ==
    /\ rpc = "larnv"
    /\ rarg.idist \in 1 .. 3
    /\ ~rarg.complexT
    /\ ri < rarg.n
    /\ rx' = [rx EXCEPT ![ri + 1] = Draw(Dist(rarg.idist), Seeded(rarg), rgen)]
    /\ rgen' = rgen + 1
    /\ ri' = ri + 1
    /\ UNCHANGED <<rpc, rarg, rseed, rerr>>
    /\ UNCHANGED <<gvars, lvars, cvars, svars, avars>>

\* idist 1, 2, 3 on a complex x: set_complex(x[i], d(generator), d(generator))
LarnvComplex ==
    /\ rpc = "larnv"
    /\ rarg.idist \in 1 .. 3
    /\ rarg.complexT
    /\ ri < rarg.n
    /\ LET d == TwoDraws(rarg, rgen)
       IN  /\ rx' = [rx EXCEPT ![ri + 1] = SetComplex(TRUE, rx[ri + 1], d.re, d.im).x]
           /\ rerr' = (rerr \/ SetComplex(TRUE, rx[ri + 1], d.re, d.im).err)
    /\ rgen' = rgen + 2
    /\ ri' = ri + 1
    /\ UNCHANGED <<rpc, rarg, rseed>>
    /\ UNCHANGED <<gvars, lvars, cvars, svars, avars>>

\* idist 4 on a complex x: uniform on the disc
LarnvDisc ==
    /\ rpc = "larnv"
    /\ rarg.idist = 4
    /\ rarg.complexT
    /\ ri < rarg.n
    /\ LET r == <<"sqrt", Draw(Dist(4), Seeded(rarg), rgen)>>
           theta == <<"twopi*", Draw(Dist(4), Seeded(rarg), rgen + 1)>>
       IN  /\ rx' = [rx EXCEPT ![ri + 1] =
                  SetComplex(TRUE, rx[ri + 1], <<"r*cos", r, theta>>,
                             <<"r*sin", r, theta>>).x]
           /\ rerr' = (rerr \/ SetComplex(TRUE, rx[ri + 1], r, theta).err)
    /\ rgen' = rgen + 2
    /\ ri' = ri + 1
    /\ UNCHANGED <<rpc, rarg, rseed>>
    /\ UNCHANGED <<gvars, lvars, cvars, svars, avars>>

\* idist 5 on a complex x: uniform on the circle
LarnvCircle ==
    /\ rpc = "larnv"
    /\ rarg.idist = 5
    /\ rarg.complexT
    /\ ri < rarg.n
    /\ LET theta == <<"twopi*", Draw(Dist(5), Seeded(rarg), rgen)>>
       IN  /\ rx' = [rx EXCEPT ![ri + 1] =
                  SetComplex(TRUE, rx[ri + 1], <<"cos", theta>>,
                             <<"sin", theta>>).x]
           /\ rerr' = (rerr \/ SetComplex(TRUE, rx[ri + 1], theta, theta).err)
    /\ rgen' = rgen + 1
    /\ ri' = ri + 1
    /\ UNCHANGED <<rpc, rarg, rseed>>
    /\ UNCHANGED <<gvars, lvars, cvars, svars, avars>>

\* update the seed
LarnvSeed ==
    /\ rpc = "larnv"
    /\ LarnvLoops(rarg) => ri = rarg.n
    /\ rseed' = rseed + 1
    /\ rpc' = "done"
    /\ UNCHANGED <<rarg, rx, rgen, ri, rerr>>
    /\ UNCHANGED <<gvars, lvars, cvars, svars, avars>>

NextLarnv ==
    \/ SetComplexReal
    \/ SetComplexStore
    \/ LarnvReal
    \/ LarnvComplex
    \/ LarnvDisc
    \/ LarnvCircle
    \/ LarnvSeed

SpecLarnv == InitLarnv /\ [][NextLarnv]_vars

\* C19: set_complex on a real target reports an error and leaves the
\* target as it was; larnv on a real vector with idist 1, 2 or 3 never
\* reports that error and, when it returns, every x[i] holds a value drawn
\* from the generator
C19_NoTruncatedStore ==
    /\ (rpc = "done" /\ rarg.op = "set_complex" /\ ~rarg.complexT)
           => rerr /\ rx[1] = Old
    /\ (rarg.op = "larnv" /\ ~rarg.complexT /\ rarg.idist \in 1 .. 3)
           => /\ ~rerr
              /\ rpc = "done" =>
                     \A e \in 1 .. rarg.n :
                         \E g \in 0 .. (rarg.n - 1) :
                             rx[e] = <<Dist(rarg.idist), rarg.seed, g>>

C19_Witness ==
    /\ rpc = "done"
    /\ rarg.op = "set_complex"
    /\ ~rarg.complexT
    /\ rerr


\* ---------------------------------------------------------------------
\* lapack::laset
\* ---------------------------------------------------------------------

MaxM == 3

UploTypes == {"upper", "lower", "general"}

\* the entries of an mm-by-nn matrix
Entries(mm, nn) == (0 .. (mm - 1)) \X (0 .. (nn - 1))

MutUpperCells(mm, nn) ==
    {ij \in Entries(mm, nn) : ij[2] \in 2 .. (nn - 1) /\ ij[1] < Min(mm, ij[2])}

\* for j = 1 .. n-1, for i < min(m,j)
UpperCells(mm, nn) ==
    {ij \in Entries(mm, nn) : ij[2] \in 1 .. (nn - 1) /\ ij[1] < Min(mm, ij[2])}

\* for j < min(m,n), for i = j+1 .. m-1
LowerCells(mm, nn) ==
    {ij \in Entries(mm, nn) :
        ij[2] \in 0 .. (Min(mm, nn) - 1) /\ ij[1] \in (ij[2] + 1) .. (mm - 1)}

\* for i < min(m,n): (i, i)
DiagCells(mm, nn) == {<<d, d>> : d \in 0 .. (Min(mm, nn) - 1)}

\* A with val assigned to each entry of cells
Assign(M, cells, val) ==
    [ij \in DOMAIN M |-> IF ij \in cells THEN val ELSE M[ij]]

InitLaset ==
    /\ Geqr2Idle
    /\ LarfgIdle
    /\ CopyIdle
    /\ SyrkIdle
    /\ LarnvIdle
    /\ apc = "laset"
    /\ aarg \in [uplo : UploTypes, m : 0 .. MaxM, n : 0 .. MaxM]
    /\ aA = [ij \in Entries(aarg.m, aarg.n) |-> "in"]

\* the strictly upper triangular or trapezoidal part
LasetUpper ==
    /\ apc = "laset"
    /\ aarg.uplo = "upper"
    /\ aA' = Assign(aA, UpperCells(aarg.m, aarg.n), "alpha")
    /\ apc' = "diag"
    /\ UNCHANGED aarg
    /\ UNCHANGED <<gvars, lvars, cvars, svars, rvars>>

\* the strictly lower triangular or trapezoidal part
LasetLower ==
    /\ apc = "laset"
    /\ aarg.uplo = "lower"
    /\ aA' = Assign(aA, LowerCells(aarg.m, aarg.n), "alpha")
    /\ apc' = "diag"
    /\ UNCHANGED aarg
    /\ UNCHANGED <<gvars, lvars, cvars, svars, rvars>>

\* all elements
LasetGeneral ==
    /\ apc = "laset"
    /\ aarg.uplo # "upper"
    /\ aarg.uplo # "lower"
    /\ aA' = Assign(aA, Entries(aarg.m, aarg.n), "alpha")
    /\ apc' = "diag"
    /\ UNCHANGED aarg
    /\ UNCHANGED <<gvars, lvars, cvars, svars, rvars>>

\* the first min(m,n) diagonal elements
LasetDiag ==
    /\ apc = "diag"
    /\ aA' = Assign(aA, DiagCells(aarg.m, aarg.n), "beta")
    /\ apc' = "done"
    /\ UNCHANGED aarg
    /\ UNCHANGED <<gvars, lvars, cvars, svars, rvars>>

NextLaset ==
    \/ LasetUpper
    \/ LasetLower
    \/ LasetGeneral
    \/ LasetDiag

SpecLaset == InitLaset /\ [][NextLaset]_vars

\* C20: after laset on an m-by-n matrix every diagonal entry is beta; for
\* upper every entry above the diagonal is alpha and every entry below it
\* is unchanged; for lower every entry below the diagonal is alpha and
\* every entry above it is unchanged; for general every off-diagonal entry
\* is alpha
C20_LasetResult ==
    apc = "done"
        => \A r \in 0 .. (aarg.m - 1), c \in 0 .. (aarg.n - 1) :
               aA[<<r, c>>] =
                   IF r = c THEN "beta"
                   ELSE IF aarg.uplo = "general" THEN "alpha"
                   ELSE IF aarg.uplo = "upper"
                   THEN (IF r < c THEN "alpha" ELSE "in")
                   ELSE (IF r > c THEN "alpha" ELSE "in")

C20_Witness ==
    /\ apc = "done"
    /\ aarg.uplo = "upper"
    /\ aarg.m = 2
    /\ aarg.n = MaxM
    /\ aA[<<0, 2>>] = "alpha"
    /\ aA[<<1, 0>>] = "in"
    /\ aA[<<1, 1>>] = "beta"


\* ---------------------------------------------------------------------
\* larnv: the seed and the values
\* ---------------------------------------------------------------------

\* the value of x[e] that the seed, idist and the position give, for the
\* element type and the argument evaluation order of the build
ValueOf(idist, seed, e, complexT, reFirst) ==
    IF idist \in 1 .. 3 /\ ~complexT THEN <<Dist(idist), seed, e>>
    ELSE IF idist \in 1 .. 3
    THEN [re |-> <<Dist(idist), seed, IF reFirst THEN 2 * e ELSE 2 * e + 1>>,
          im |-> <<Dist(idist), seed, IF reFirst THEN 2 * e + 1 ELSE 2 * e>>]
    ELSE IF idist = 4 /\ complexT
    THEN LET r == <<"sqrt", <<"uniform(0,1)", seed, 2 * e>>>>
             theta == <<"twopi*", <<"uniform(0,1)", seed, 2 * e + 1>>>>
         IN  [re |-> <<"r*cos", r, theta>>, im |-> <<"r*sin", r, theta>>]
    ELSE IF idist = 5 /\ complexT
    THEN LET theta == <<"twopi*", <<"uniform(0,1)", seed, e>>>>
         IN  [re |-> <<"cos", theta>>, im |-> <<"sin", theta>>]
    ELSE Old

\* C21: a call of larnv replaces iseed by iseed + 1 once, at its end, for
\* every idist and every length, also when no element of x is written; the
\* values it leaves in x are determined by the incoming seed, idist and the
\* length (for a given element type and build), not by std::random_device
C21_SeedStepAndValues ==
    rarg.op = "larnv"
        => /\ rpc = "larnv" => rseed = rarg.seed
           /\ rpc = "done" =>
                  /\ rseed = rarg.seed + 1
                  /\ Len(rx) = rarg.n
                  /\ \A e \in 1 .. rarg.n :
                         rx[e] = ValueOf(rarg.idist, rarg.seed, e - 1,
                                         rarg.complexT, rarg.reFirst)

C21_Witness ==
    /\ rarg.op = "larnv"
    /\ rpc = "done"
    /\ rarg.idist = 4
    /\ ~rarg.complexT
    /\ rarg.n = MaxX
    /\ rarg.device # rarg.seed
    /\ rseed = rarg.seed + 1
    /\ rx[MaxX] = Old


\* ---------------------------------------------------------------------
\* geqr2: the pivot placeholder, the scratch window, the ranges, the frame
\* ---------------------------------------------------------------------

\* the placeholder is nowhere but in A(i,i) between larfg and the end of
\* larf, while alpha holds the value that larfg left there
PlaceholderOnlyInIteration ==
    /\ \A p \in DOMAIN A :
           A[p] = One => (pc \in {"larf", "restore"} /\ p = <<i, i>>)
    /\ pc \in {"larf", "restore"} =>
           /\ A[<<i, i>>] = One
           /\ alpha \in {BetaOf(i), In} \cup {COf(c) : c \in 0 .. (i - 1)}
    /\ (pc \in {"viewret", "done"} /\ info = 0) =>
           \A d \in 0 .. (Min(m, n) - 1) :
               A[<<d, d>>] \in {BetaOf(d), In} \cup {COf(c) : c \in 0 .. (d - 1)}

\* the value is saved when the placeholder is stored, larf leaves both
\* alone, and the saved value is put back at the end of the iteration
PlaceholderSteps ==
    /\ pc = "pivot" => (alpha' = A[<<i, i>>] /\ A'[<<i, i>>] = One)
    /\ pc = "larf" => (alpha' = alpha /\ A'[<<i, i>>] = One)
    /\ pc = "restore" => A'[<<i, i>>] = alpha

\* C22: in iteration i, A(i,i) holds the placeholder 1 only between the
\* larfg call and the end of the larf call; larf does not write A(i,i); at
\* the end of the iteration A(i,i) holds again the value that larfg left
\* there, so no diagonal entry holds the placeholder on return
C22_PivotPlaceholder ==
    /\ []PlaceholderOnlyInIteration
    /\ [][PlaceholderSteps]_vars

C22_Witness ==
    /\ pc = "loop"
    /\ i = 2
    /\ A[<<0, 0>>] = BetaOf(0)
    /\ A[<<1, 1>>] = BetaOf(1)
    /\ <<"larf", 1>> \in {log[q] : q \in DOMAIN log}


\* ---------------------------------------------------------------------
\* larfg: the rescaling loop
\* ---------------------------------------------------------------------

\* (1/safemin)^k
RECURSIVE Rescale(_)
Rescale(k) == IF k = 0 THEN ROne ELSE RDiv(Rescale(k - 1), <<1, 2>>)

\* C23: the rescaling loop runs at most 20 times, also when |beta| is still
\* below safemin; after knt iterations x, alpha and beta are the input
\* values times (1/safemin)^knt; the beta stored in alpha at the end is
\* multiplied back by safemin knt times, so it is the beta of the unscaled
\* input
C23_RescalingLoop ==
    /\ lknt \in 0 .. 20
    /\ lpc \in {"start", "idle"} => lknt = 0
    /\ lpc = "scale" =>
           /\ lalpha = CScale(lin.alpha, Rescale(lknt))
           /\ lx = [q \in DOMAIN lin.x |-> CScale(lin.x[q], Rescale(lknt))]
           /\ lbeta = RMul(ClaimedBeta, Rescale(lknt))
    /\ lpc = "finish" =>
           /\ lalpha = CScale(lin.alpha, Rescale(lknt))
           /\ lbeta = RMul(ClaimedBeta, Rescale(lknt))
           /\ lknt < 20 => ~RLt(abs(lbeta), <<1, 2>>)
    /\ (lpc = "done" /\ ltau # CZero) => lalpha = CReal(ClaimedBeta)

C23_Witness ==
    /\ lpc = "finish"
    /\ lknt = 20
    /\ RLt(abs(lbeta), <<1, 2>>)
    /\ Len(lin.x) = MaxLen
    /\ ~XIsZero(lin.x)


\* an iteration of the loop is in progress
InIteration == pc \in {"pivot", "larf", "restore"}

\* the storage vector that work addresses
WorkVec == IF work.base = "tau" THEN tau ELSE buf

\* C24: in iteration i the scratch window work[i : n-1] has n-1-i elements,
\* as many as C = A[i:m, i+1:n] has columns, and at least one since
\* i <= n-2; larf writes that many scratch cells and that many columns
C24_WindowMatchesC ==
    InIteration =>
        /\ i <= n - 2
        /\ Cardinality(WRange(n, i)) = n - 1 - i
        /\ Cardinality(CCols(n, i)) = n - 1 - i
        /\ n - 1 - i >= 1
        /\ pc = "restore" =>
               /\ Cardinality({j \in DOMAIN WorkVec : WorkVec[j] = WOf(i)})
                      = n - 1 - i
               /\ Cardinality({p[2] : p \in {q \in DOMAIN A : A[q] = COf(i)}})
                      = n - 1 - i

C24_Witness ==
    /\ pc = "restore"
    /\ m = 3 /\ n = 3
    /\ i = 0
    /\ work.base = "buf"
    /\ buf[0] = WOf(0)
    /\ buf[1] = WOf(0)

\* the preconditions of the kernel
KernelPre ==
    m >= 0 /\ n >= 1 /\ tauSize >= Min(m, n) /\ work.size >= n - 1

\* the slice {first, last + 1} lies in a parent of ext elements
Within(pr, ext) == 0 <= pr[1] /\ pr[1] <= pr[2] /\ pr[2] <= ext

\* the indices that a pair {first, last + 1} selects
Span(pr) == pr[1] .. (pr[2] - 1)

\* C25: with m >= 0, n >= 1, size(tau) >= min(m,n) and size(work) >= n-1,
\* every element index and every slice that geqr2 requests lies within its
\* parent view, with first <= last + 1: in iteration i A(i,i), tau[i],
\* col(A,i)[i+1:m], col(A,i)[i:m], A[i:m, i+1:n], work[i:n-1]; after the
\* loop A(n-1,n-1), tau[n-1], col(A,n-1)[n:m]
C25_RangesWithinParents ==
    /\ (InIteration /\ KernelPre) =>
           /\ i \in 0 .. (m - 1)
           /\ i \in 0 .. (n - 1)
           /\ i \in 0 .. (tauSize - 1)
           /\ Within(LoopRanges(m, n, i).x, m)
           /\ Within(LoopRanges(m, n, i).v, m)
           /\ Within(LoopRanges(m, n, i).Crows, m)
           /\ Within(LoopRanges(m, n, i).Ccols, n)
           /\ Within(LoopRanges(m, n, i).w, work.size)
           /\ XRows(m, i) = Span(LoopRanges(m, n, i).x)
           /\ CRows(m, i) = Span(LoopRanges(m, n, i).Crows)
           /\ CCols(n, i) = Span(LoopRanges(m, n, i).Ccols)
           /\ WRange(n, i) = Span(LoopRanges(m, n, i).w)
    /\ (pc \in {"viewret", "done"} /\ info = 0 /\ KernelPre /\ n - 1 < m) =>
           /\ (n - 1) \in 0 .. (m - 1)
           /\ (n - 1) \in 0 .. (tauSize - 1)
           /\ Within(TailRanges(m, n).x, m)
           /\ XRows(m, n - 1) = Span(TailRanges(m, n).x)
           /\ tau[n - 1] = TauOf(n - 1)

C25_Witness ==
    /\ pc = "done"
    /\ api = "view"
    /\ info = 0
    /\ m = 3 /\ n = 3
    /\ tauSize = 3
    /\ work.size = 2
    /\ <<"larf", 1>> \in {log[q] : q \in DOMAIN log}
    /\ <<"larfg", 2>> \in {log[q] : q \in DOMAIN log}

\* every value in A was stored by an iteration no later than its row and
\* its column; tau[j] of a finished iteration j holds larfg's value unless
\* it lies in the part of tau that serves as scratch
FinishedRowsFinal ==
    /\ \A p \in DOMAIN A : A[p][2] <= Min(p[1], p[2])
    /\ (pc \in {"loop", "pivot", "larf", "restore"}) =>
           \A j \in 0 .. (i - 1) : j \in DOMAIN tau => tau[j] = TauOf(j)

\* a step of the kernel writes only cells A(r,c) with r >= i and c >= i,
\* the entry tau[i] and scratch cells work[i .. n-2]
FrameOfStep ==
    pc \in {"loop", "pivot", "larf", "restore"} =>
        /\ \A p \in DOMAIN A : A'[p] # A[p] => (p[1] >= i /\ p[2] >= i)
        /\ \A j \in DOMAIN tau :
               tau'[j] # tau[j] =>
                   \/ j = i
                   \/ work.base = "tau" /\ (j - work.off) \in i .. (n - 2)
        /\ \A j \in DOMAIN buf :
               buf'[j] # buf[j] =>
                   (work.base = "buf" /\ (j - work.off) \in i .. (n - 2))

\* C26: iteration i writes only cells A(r,c) with r >= i and c >= i, tau[i]
\* and work[i .. n-2]; entries of A in a row or column below i and tau[j],
\* j < i, are left unchanged by iteration i and by every later step, so
\* row i of R is final once iteration i completes
C26_IterationFrame ==
    /\ []FinishedRowsFinal
    /\ [][FrameOfStep]_vars

C26_Witness ==
    /\ pc = "restore"
    /\ i = 1
    /\ m = 3 /\ n = 3
    /\ A[<<0, 0>>] = BetaOf(0)
    /\ A[<<0, 2>>] = COf(0)
    /\ A[<<1, 0>>] = VOf(0)
    /\ A[<<1, 2>>] = COf(1)
    /\ tau[0] = TauOf(0)

====
